---- MODULE Spec2Model ----
(***************************************************************************)
(* News_Scraper: the brief builder (NewsSummarizer.create_daily_brief),    *)
(* one cycle (news_summarizer.main) and the scheduler loop (scheduler.py). *)
(*                                                                         *)
(* An Article is identified by its url: title and snippet are copied       *)
(* verbatim into the ArticleSummary and the summary text is opaque, so an  *)
(* ArticleSummary is represented by the url of the article it was built    *)
(* from.  A Python dict is an insertion-ordered mapping; it is modelled as *)
(* a sequence of [topic, summaries] records.                               *)
(***************************************************************************)
EXTENDS Naturals, Sequences, FiniteSets

VARIABLES
    \* ---- NewsSummarizer.create_daily_brief
    topics,              \* argument: list of topics
    articles_per_topic,  \* argument: max_results passed to the search adapter
    bpc,                 \* position: "idle" | "loop" | "summarize" | "returned" | "raised"
    ti,                  \* index of the topic the outer for loop is at (1-based)
    articles,            \* search.results of the current topic
    unique_articles,     \* the dedupe survivors of the current topic
    ai,                  \* index of the article the inner for loop is at
    topic_summaries,     \* summaries appended so far for the current topic
    failed,              \* urls of the current topic whose summarize_article raised
    brief,               \* the dict being built
    fetch_error,         \* the search adapter raised during this call
    \* ---- main (one cycle)
    mpc,                 \* "idle" | "init" | "build" | "flags" | "save" | "email" | "returned" | "escaped"
    auto_save,           \* config["auto_save"]
    email_enabled,       \* config["email"]["enabled"]
    printed,             \* print_brief ran to completion
    saved,               \* save_brief_to_file ran to completion
    email_attempted,     \* send_email was called
    raised,              \* the exception raised inside main's try block, or "none"
    \* ---- scheduler.py
    spc,                 \* "direct" | "start" | "runnow" | "loop" | "running" | "stopped" | "crashed"
    argv,                \* sys.argv[1:]
    due,                 \* the scheduled job's next_run has been reached
    ran_before_loop,     \* run_news_summarizer calls completed before the while loop
    report,              \* last line printed by run_news_summarizer: "none" | "success" | "error"
    last_failed          \* the most recently completed cycle raised inside main

bvars == <<topics, articles_per_topic, bpc, ti, articles, unique_articles, ai,
           topic_summaries, failed, brief, fetch_error>>
mvars == <<mpc, auto_save, email_enabled, printed, saved, email_attempted, raised>>
svars == <<spc, argv, due, ran_before_loop, report, last_failed>>
vars == <<bvars, mvars, svars>>

(***************************************************************************)
(* Bounds and input sets                                                   *)
(***************************************************************************)
\* SpecBuild: few topics, many articles per topic
MaxTopics == 2
MaxFetched == 4
\* SpecTopics: many topics, few articles per topic
MaxDupTopics == 3
MinFetched == 1
\* Spec (scheduler + main): the configured topic list and articles_per_topic
MaxCfgTopics == 2
MaxCfgFetched == 1

Topics == {"t1", "t2"}
URLs == {"A", "B", "C"}
Argvs == {<<>>, <<"--run-now">>, <<"--other">>}

SeqsUpTo(S, n) == UNION {[1..k -> S] : k \in 0..n}
TopicLists(n) == SeqsUpTo(Topics, n) \ {<<>>}

(***************************************************************************)
(* dict operations                                                         *)
(***************************************************************************)
Keys(d) == [i \in 1..Len(d) |-> d[i].topic]
HasKey(d, k) == \E i \in 1..Len(d) : d[i].topic = k
DictGet(d, k) == d[CHOOSE i \in 1..Len(d) : d[i].topic = k].summaries

\* faulty variant of DictSet: re-assigning a key moves it to the end
DictSetMoveToEnd(d, k, v) ==
    Append(SelectSeq(d, LAMBDA e : e.topic # k), [topic |-> k, summaries |-> v])

\* d[k] = v : an existing key keeps its position, a new key goes last
DictSet(d, k, v) ==
    IF HasKey(d, k)
    THEN [i \in 1..Len(d) |-> IF d[i].topic = k
                              THEN [topic |-> k, summaries |-> v]
                              ELSE d[i]]
    ELSE Append(d, [topic |-> k, summaries |-> v])

(***************************************************************************)
(* create_daily_brief: the dedupe loop                                     *)
(***************************************************************************)
RECURSIVE DedupeFrom(_, _, _, _)
DedupeFrom(as, i, seen_urls, acc) ==
    IF i > Len(as) THEN acc
    ELSE IF as[i] \notin seen_urls
         THEN DedupeFrom(as, i + 1, seen_urls \cup {as[i]}, Append(acc, as[i]))
         ELSE DedupeFrom(as, i + 1, seen_urls, acc)

\* faulty variant of Dedupe: the seen set is shared by all topics of the brief
DedupeGlobal(as, b) ==
    DedupeFrom(as, 1, UNION {{d.summaries[j] : j \in 1..Len(d.summaries)} :
                             d \in {b[i] : i \in 1..Len(b)}}, <<>>)

\* seen_urls = set(); unique_articles = []; for article in articles: ...
Dedupe(as, b) == DedupeFrom(as, 1, {}, <<>>)

\* faulty variant of StoreEmpty: the empty topic is skipped without an entry
StoreEmptySkip(b, t) == b

\* brief[topic] = []
StoreEmpty(b, t) == DictSet(b, t, <<>>)

\* faulty variant of OnSummarizeError: the failing article is recorded anyway
OnSummarizeErrorKeep(sums, article) == Append(sums, article)

\* except Exception as e: print(...); continue
OnSummarizeError(sums, article) == sums

\* the code of a cycle runs only while its caller has not been interrupted
Alive == spc \in {"direct", "runnow", "running"}

(***************************************************************************)
(* create_daily_brief: actions                                             *)
(***************************************************************************)
\* brief = {} ; for topic in topics:
BuilderStart(ts, n) ==
    /\ topics' = ts
    /\ articles_per_topic' = n
    /\ bpc' = "loop"
    /\ ti' = 1
    /\ articles' = <<>>
    /\ unique_articles' = <<>>
    /\ ai' = 1
    /\ topic_summaries' = <<>>
    /\ failed' = {}
    /\ brief' = <<>>
    /\ fetch_error' = FALSE

\* articles = self.fetch_news(...) returned; the empty case, else the dedupe
FetchNews ==
    /\ Alive
    /\ UNCHANGED <<mvars, svars>>
    /\ bpc = "loop"
    /\ ti <= Len(topics)
    /\ \E as \in SeqsUpTo(URLs, articles_per_topic) :
          /\ articles' = as
          /\ failed' = {}
          /\ topic_summaries' = <<>>
          /\ ai' = 1
          /\ IF Len(as) = 0
             THEN /\ brief' = StoreEmpty(brief, topics[ti])
                  /\ unique_articles' = <<>>
                  /\ ti' = ti + 1
                  /\ bpc' = "loop"
             ELSE /\ unique_articles' = Dedupe(as, brief)
                  /\ bpc' = "summarize"
                  /\ UNCHANGED <<brief, ti>>
    /\ UNCHANGED <<topics, articles_per_topic, fetch_error>>

\* faulty variant of FetchNewsRaises: the failure is isolated to its topic
FetchNewsIsolated ==
    /\ Alive
    /\ UNCHANGED <<mvars, svars>>
    /\ bpc = "loop"
    /\ ti <= Len(topics)
    /\ fetch_error' = TRUE
    /\ brief' = DictSet(brief, topics[ti], <<>>)
    /\ ti' = ti + 1
    /\ UNCHANGED <<topics, articles_per_topic, bpc, articles, unique_articles, ai,
                   topic_summaries, failed>>

\* self.client.search.create raised: nothing catches it in create_daily_brief
FetchNewsRaises ==
    /\ Alive
    /\ UNCHANGED <<mvars, svars>>
    /\ bpc = "loop"
    /\ ti <= Len(topics)
    /\ bpc' = "raised"
    /\ fetch_error' = TRUE
    /\ UNCHANGED <<topics, articles_per_topic, ti, articles, unique_articles, ai,
                   topic_summaries, failed, brief>>

\* summarize_article returned: the ArticleSummary is appended
SummarizeOk ==
    /\ Alive
    /\ UNCHANGED <<mvars, svars>>
    /\ bpc = "summarize"
    /\ ai <= Len(unique_articles)
    /\ topic_summaries' = Append(topic_summaries, unique_articles[ai])
    /\ ai' = ai + 1
    /\ articles' = <<>>     \* articles is not read after the dedupe report
    /\ UNCHANGED <<topics, articles_per_topic, bpc, ti, unique_articles, failed, brief,
                   fetch_error>>

\* summarize_article raised an Exception
SummarizeFails ==
    /\ Alive
    /\ UNCHANGED <<mvars, svars>>
    /\ bpc = "summarize"
    /\ ai <= Len(unique_articles)
    /\ topic_summaries' = OnSummarizeError(topic_summaries, unique_articles[ai])
    /\ failed' = failed \cup {unique_articles[ai]}
    /\ ai' = ai + 1
    /\ articles' = <<>>
    /\ UNCHANGED <<topics, articles_per_topic, bpc, ti, unique_articles, brief, fetch_error>>

\* brief[topic] = topic_summaries
StoreTopic ==
    /\ Alive
    /\ UNCHANGED <<mvars, svars>>
    /\ bpc = "summarize"
    /\ ai > Len(unique_articles)
    /\ brief' = DictSet(brief, topics[ti], topic_summaries)
    /\ ti' = ti + 1
    /\ bpc' = "loop"
    /\ UNCHANGED <<topics, articles_per_topic, articles, unique_articles, ai,
                   topic_summaries, failed, fetch_error>>

\* return brief
ReturnBrief ==
    /\ Alive
    /\ UNCHANGED <<mvars, svars>>
    /\ bpc = "loop"
    /\ ti > Len(topics)
    /\ bpc' = "returned"
    /\ UNCHANGED <<topics, articles_per_topic, ti, articles, unique_articles, ai,
                   topic_summaries, failed, brief, fetch_error>>

Builder ==
    \/ FetchNews
    \/ FetchNewsRaises
    \/ SummarizeOk
    \/ SummarizeFails
    \/ StoreTopic
    \/ ReturnBrief

(***************************************************************************)
(* create_daily_brief called directly                                      *)
(***************************************************************************)
InitDirect(maxTopics, n) ==
    /\ topics \in TopicLists(maxTopics)
    /\ articles_per_topic = n
    /\ bpc = "loop"
    /\ ti = 1
    /\ articles = <<>>
    /\ unique_articles = <<>>
    /\ ai = 1
    /\ topic_summaries = <<>>
    /\ failed = {}
    /\ brief = <<>>
    /\ fetch_error = FALSE
    /\ mpc = "idle"
    /\ auto_save = FALSE
    /\ email_enabled = FALSE
    /\ printed = FALSE
    /\ saved = FALSE
    /\ email_attempted = FALSE
    /\ raised = "none"
    /\ spc = "direct"
    /\ argv = <<>>
    /\ due = FALSE
    /\ ran_before_loop = 0
    /\ report = "none"
    /\ last_failed = FALSE

InitBuild == InitDirect(MaxTopics, MaxFetched)
InitTopics == InitDirect(MaxDupTopics, MinFetched)

NextBuild == Builder

SpecBuild == InitBuild /\ [][NextBuild]_vars
SpecTopics == InitTopics /\ [][NextBuild]_vars

(***************************************************************************)
(* main: one cycle                                                         *)
(***************************************************************************)
\* what can be raised inside main's try block
ExceptionKinds == {"ValueError", "FetchError", "PrintError", "OSError", "EOFError"}

\* faulty variant of IsException: only the documented setup problems are caught
IsSetupError(e) == e = "ValueError"

\* `except Exception`: every kind above derives from Exception;
\* KeyboardInterrupt derives from BaseException only
IsException(e) == e \in ExceptionKinds

\* where main is after `e` was raised inside its try block: the handler only
\* prints fixed text (taken not to fail), then main returns normally
AfterRaise(e) == IF IsException(e) THEN "returned" ELSE "escaped"

\* the frame of create_daily_brief is gone (returned from main, or unwound)
BuilderGone ==
    /\ topics' = <<>>
    /\ articles_per_topic' = 0
    /\ bpc' = "idle"
    /\ ti' = 1
    /\ articles' = <<>>
    /\ unique_articles' = <<>>
    /\ ai' = 1
    /\ topic_summaries' = <<>>
    /\ failed' = {}
    /\ brief' = <<>>
    /\ fetch_error' = FALSE

\* the locals of a cycle that is not running
NoCycle ==
    /\ BuilderGone
    /\ auto_save' = FALSE
    /\ email_enabled' = FALSE
    /\ printed' = FALSE
    /\ saved' = FALSE
    /\ email_attempted' = FALSE
    /\ raised' = "none"

\* config = load_config(); summarizer = NewsSummarizer(config=config);
\* summarizer.create_daily_brief(topics, articles_per_topic) is entered
MainInit ==
    /\ Alive
    /\ mpc = "init"
    /\ \E ts \in TopicLists(MaxCfgTopics) : BuilderStart(ts, MaxCfgFetched)
    /\ mpc' = "build"
    /\ UNCHANGED <<auto_save, email_enabled, printed, saved, email_attempted, raised, svars>>

\* NewsSummarizer.__init__ raises ValueError: no PERPLEXITY_API_KEY
MainInitRaises ==
    /\ Alive
    /\ mpc = "init"
    /\ raised' = "ValueError"
    /\ mpc' = AfterRaise("ValueError")
    /\ UNCHANGED <<bvars, auto_save, email_enabled, printed, saved, email_attempted, svars>>

\* fetch_news raised inside create_daily_brief: it reaches main's try block
MainBuildRaised ==
    /\ Alive
    /\ mpc = "build"
    /\ bpc = "raised"
    /\ raised' = "FetchError"
    /\ mpc' = AfterRaise("FetchError")
    /\ UNCHANGED <<bvars, auto_save, email_enabled, printed, saved, email_attempted, svars>>

\* summarizer.print_brief(brief)
MainPrint ==
    /\ Alive
    /\ mpc = "build"
    /\ bpc = "returned"
    /\ printed' = TRUE
    /\ mpc' = "flags"
    /\ UNCHANGED <<bvars, auto_save, email_enabled, saved, email_attempted, raised, svars>>

\* print_brief raised (strftime of the configured date_format)
MainPrintRaises ==
    /\ Alive
    /\ mpc = "build"
    /\ bpc = "returned"
    /\ raised' = "PrintError"
    /\ mpc' = AfterRaise("PrintError")
    /\ UNCHANGED <<bvars, auto_save, email_enabled, printed, saved, email_attempted, svars>>

\* auto_save = config.get("auto_save", False); config.get("email", {}).get("enabled"):
\* the config is immutable during the cycle and these two keys are first read
\* here, so their values are drawn here
MainReadFlags ==
    /\ Alive
    /\ mpc = "flags"
    /\ auto_save' \in BOOLEAN
    /\ email_enabled' \in BOOLEAN
    /\ mpc' = "save"
    /\ UNCHANGED <<bvars, printed, saved, email_attempted, raised, svars>>

\* the file is written when auto_save or email.enabled is set
SaveWithoutPrompt == auto_save \/ email_enabled

\* save_brief_to_file(brief, config) returned
MainSave ==
    /\ Alive
    /\ mpc = "save"
    /\ SaveWithoutPrompt
    /\ saved' = TRUE
    /\ mpc' = "email"
    /\ UNCHANGED <<bvars, auto_save, email_enabled, printed, email_attempted, raised, svars>>

\* input("Save brief to file? (y/n)") answered
MainPrompt ==
    /\ Alive
    /\ mpc = "save"
    /\ ~SaveWithoutPrompt
    /\ \E answer \in {"y", "n"} : saved' = (answer = "y")
    /\ mpc' = "email"
    /\ UNCHANGED <<bvars, auto_save, email_enabled, printed, email_attempted, raised, svars>>

\* input() raised EOFError: no terminal is attached
MainPromptRaises ==
    /\ Alive
    /\ mpc = "save"
    /\ ~SaveWithoutPrompt
    /\ raised' = "EOFError"
    /\ mpc' = AfterRaise("EOFError")
    /\ UNCHANGED <<bvars, auto_save, email_enabled, printed, saved, email_attempted, svars>>

\* save_brief_to_file raised OSError (os.makedirs, open or write); it is called
\* on every branch: without a prompt, or after the answer "y"
MainSaveRaises ==
    /\ Alive
    /\ mpc = "save"
    /\ raised' = "OSError"
    /\ mpc' = AfterRaise("OSError")
    /\ UNCHANGED <<bvars, auto_save, email_enabled, printed, saved, email_attempted, svars>>

\* if email_config.get("enabled"): send_email(brief, config); send_email
\* returns (success, message) and raises nothing
MainEmail ==
    /\ Alive
    /\ mpc = "email"
    /\ email_attempted' = email_enabled
    /\ mpc' = "returned"
    /\ UNCHANGED <<bvars, auto_save, email_enabled, printed, saved, raised, svars>>

Main ==
    \/ MainInit
    \/ MainInitRaises
    \/ MainBuildRaised
    \/ MainPrint
    \/ MainPrintRaises
    \/ MainReadFlags
    \/ MainSave
    \/ MainPrompt
    \/ MainPromptRaises
    \/ MainSaveRaises
    \/ MainEmail

(***************************************************************************)
(* scheduler.py                                                            *)
(***************************************************************************)
\* faulty variant of RunNowRequested: any argument starts the immediate run
AnyArgument(a) == Len(a) > 0

\* len(sys.argv) > 1 and sys.argv[1] == "--run-now"
RunNowRequested(a) == Len(a) > 0 /\ a[1] = "--run-now"

\* faulty variant of AfterRun: the error branch leaves the scheduler
AfterRunExitOnFailure(failure) == IF failure THEN "stopped" ELSE "loop"

\* run_news_summarizer returns to its caller whether or not the cycle failed
\* ("Don't exit - keep the scheduler running"); the caller goes on to the loop
AfterRun(failure) == "loop"

\* if --run-now: run_immediately() -> run_news_summarizer() -> main()
RunImmediately ==
    /\ spc = "start"
    /\ RunNowRequested(argv)
    /\ spc' = "runnow"
    /\ mpc' = "init"
    /\ UNCHANGED <<bvars, auto_save, email_enabled, printed, saved, email_attempted,
                   raised, argv, due, ran_before_loop, report, last_failed>>

\* no --run-now: straight to the while loop
EnterLoop ==
    /\ spc = "start"
    /\ ~RunNowRequested(argv)
    /\ spc' = "loop"
    /\ UNCHANGED <<bvars, mvars, argv, due, ran_before_loop, report, last_failed>>

\* wall-clock time reaches the job's next_run
Tick ==
    /\ spc \in {"start", "runnow", "loop"}
    /\ ~due
    /\ due' = TRUE
    /\ UNCHANGED <<bvars, mvars, spc, argv, ran_before_loop, report, last_failed>>

\* schedule.run_pending() finds the job due: run_news_summarizer() -> main()
PollDue ==
    /\ spc = "loop"
    /\ due
    /\ spc' = "running"
    /\ mpc' = "init"
    /\ UNCHANGED <<bvars, auto_save, email_enabled, printed, saved, email_attempted,
                   raised, argv, due, ran_before_loop, report, last_failed>>

\* schedule.run_pending() finds nothing due; time.sleep(60)
PollIdle ==
    /\ spc = "loop"
    /\ ~due
    /\ UNCHANGED vars

\* run_news_summarizer after main(): the success line, or the except branch;
\* a scheduled job is then rescheduled by the schedule library
RunReturn ==
    /\ spc \in {"runnow", "running"}
    /\ mpc \in {"returned", "escaped"}
    /\ report' = IF mpc = "returned" THEN "success" ELSE "error"
    /\ last_failed' = (raised # "none")
    /\ spc' = AfterRun(mpc = "escaped" \/ raised # "none")
    /\ due' = IF spc = "running" THEN FALSE ELSE due
    /\ ran_before_loop' = IF spc = "runnow" THEN ran_before_loop + 1 ELSE ran_before_loop
    /\ mpc' = "idle"
    /\ NoCycle
    /\ UNCHANGED argv

\* faulty variant of InterruptTarget: the try block also covers run_immediately
InterruptTargetAllHandled(s) == "stopped"

\* where an uncaught KeyboardInterrupt lands: `except KeyboardInterrupt` wraps
\* the while loop only; raised before the loop it ends the process
InterruptTarget(s) == IF s \in {"loop", "running"} THEN "stopped" ELSE "crashed"

\* the statements of main that are inside its try block
InTry == mpc \in {"init", "build", "flags", "save", "email"}

\* Ctrl+C: KeyboardInterrupt is raised at the statement being executed.  Inside
\* main's try block it meets `except Exception`, and the same clause again in
\* run_news_summarizer; what neither catches unwinds the stack up to the loop.
\* mpc and the sink flags stay as the record of where the cycle was cancelled
KeyboardInterrupt ==
    /\ spc \in {"start", "runnow", "loop", "running"}
    /\ IF spc \in {"runnow", "running"} /\ InTry /\ IsException("KeyboardInterrupt")
       THEN /\ raised' = "KeyboardInterrupt"
            /\ mpc' = "returned"
            /\ UNCHANGED <<bvars, auto_save, email_enabled, printed, saved,
                           email_attempted, svars>>
       ELSE /\ spc' = InterruptTarget(spc)
            /\ BuilderGone
            /\ UNCHANGED <<mvars, argv, due, ran_before_loop, report, last_failed>>

Scheduler ==
    \/ RunImmediately
    \/ EnterLoop
    \/ Tick
    \/ PollDue
    \/ PollIdle
    \/ RunReturn
    \/ KeyboardInterrupt

Init ==
    /\ topics = <<>>
    /\ articles_per_topic = 0
    /\ bpc = "idle"
    /\ ti = 1
    /\ articles = <<>>
    /\ unique_articles = <<>>
    /\ ai = 1
    /\ topic_summaries = <<>>
    /\ failed = {}
    /\ brief = <<>>
    /\ fetch_error = FALSE
    /\ mpc = "idle"
    /\ auto_save = FALSE
    /\ email_enabled = FALSE
    /\ printed = FALSE
    /\ saved = FALSE
    /\ email_attempted = FALSE
    /\ raised = "none"
    /\ spc = "start"
    /\ argv \in Argvs
    /\ due = FALSE
    /\ ran_before_loop = 0
    /\ report = "none"
    /\ last_failed = FALSE

Next ==
    \/ Builder
    \/ Main
    \/ Scheduler

Spec == Init /\ [][Next]_vars

(***************************************************************************)
(* Vocabulary of the properties                                            *)
(***************************************************************************)
Range(q) == {q[i] : i \in 1..Len(q)}
NoRepeat(q) == \A i, j \in 1..Len(q) : i # j => q[i] # q[j]
FirstIndex(q, x) == CHOOSE k \in 1..Len(q) : q[k] = x /\ \A m \in 1..(k - 1) : q[m] # x

\* u lists each distinct element of q exactly once, in order of first occurrence
IsFirstOccurrenceList(u, q) ==
    /\ NoRepeat(u)
    /\ Range(u) = Range(q)
    /\ \A i, j \in 1..Len(u) : i < j => FirstIndex(q, u[i]) < FirstIndex(q, u[j])

\* the articles of q whose summarization did not fail, in their order
Succeeded(q) == SelectSeq(q, LAMBDA u : u \notin failed)

\* the topic occurrences processed so far, and the last one of them
Processed == SubSeq(topics, 1, ti - 1)
TopicDone == bpc \in {"loop", "returned", "raised"} /\ ti > 1
LastTopic == topics[ti - 1]

\* the index of the last processed occurrence of topic k
LastWrite(k) == CHOOSE i \in 1..(ti - 1) :
                    topics[i] = k /\ \A m \in (i + 1)..(ti - 1) : topics[m] # k

\* ---- C1
C1_Entries ==
    /\ bpc = "summarize" =>
          topic_summaries = Succeeded(SubSeq(unique_articles, 1, ai - 1))
    /\ TopicDone => DictGet(brief, LastTopic) = Succeeded(unique_articles)

C1_FailureStep ==
    failed' # failed /\ failed' # {} =>
        /\ bpc' = "summarize"
        /\ ai' = ai + 1
        /\ ai' <= Len(unique_articles) + 1
        /\ <<ti, brief, unique_articles, topics>>' = <<ti, brief, unique_articles, topics>>

(***************************************************************************)
(* C1: when summarize_article raises for some of a topic's unique          *)
(* articles, the topic's entry holds exactly the articles that succeeded,  *)
(* in their original order; the failure changes nothing but the inner loop *)
(* index, so the build goes on with the next article and topic.            *)
(***************************************************************************)
C1_PartialFailure == [](C1_Entries) /\ [][C1_FailureStep]_vars

\* one of three unique articles of the second topic failed; the brief is returned
C1_Witness ==
    /\ bpc = "returned"
    /\ Len(topics) = 2
    /\ Len(unique_articles) = 3
    /\ failed = {unique_articles[2]}
    /\ DictGet(brief, LastTopic) = <<unique_articles[1], unique_articles[3]>>

(***************************************************************************)
(* C2: the unique articles of a topic are the distinct fetched urls in     *)
(* order of first occurrence; with every summarization succeeding they are *)
(* the topic's entry; no entry of the brief repeats a url, while two       *)
(* topics may hold the same url.                                           *)
(***************************************************************************)
C2_Dedup ==
    /\ bpc = "summarize" /\ ai = 1 =>
          /\ articles # <<>>
          /\ IsFirstOccurrenceList(unique_articles, articles)
    /\ TopicDone /\ failed = {} => DictGet(brief, LastTopic) = unique_articles
    /\ NoRepeat(topic_summaries)
    /\ \A i \in 1..Len(brief) : NoRepeat(brief[i].summaries)

\* [A, B, A, C] is fetched for the second topic and gives [A, B, C], although
\* the first topic's entry already holds A
C2_Witness ==
    /\ topics = <<"t1", "t2">>
    /\ ti = 2
    /\ "A" \in Range(DictGet(brief, "t1"))
    /\ articles = <<"A", "B", "A", "C">>
    /\ unique_articles = <<"A", "B", "C">>

(***************************************************************************)
(* C3: every processed topic is a key of the brief, so every input topic   *)
(* is a key of the returned brief; a topic whose fetch was empty or whose  *)
(* articles all failed is written as an empty sequence, and only a failing *)
(* fetch makes the build raise.                                            *)
(***************************************************************************)
C3_EveryTopicPresent ==
    /\ \A i \in 1..Len(Processed) : HasKey(brief, Processed[i])
    /\ bpc = "returned" => \A i \in 1..Len(topics) : HasKey(brief, topics[i])
    /\ TopicDone /\ (unique_articles = <<>> \/ Range(unique_articles) \subseteq failed) =>
          DictGet(brief, LastTopic) = <<>>
    /\ bpc = "raised" => fetch_error

\* returned: t1 fetched nothing or lost every article, every article of t2
\* failed; both are keys
C3_Witness ==
    /\ bpc = "returned"
    /\ topics = <<"t1", "t2">>
    /\ brief = <<[topic |-> "t1", summaries |-> <<>>], [topic |-> "t2", summaries |-> <<>>]>>
    /\ Cardinality(failed) = 2

\* ---- C4
C4_BackToIdle ==
    mpc \in {"returned", "escaped"} /\ raised # "none" /\ mpc' = "idle" =>
        /\ spc' = "loop"
        /\ last_failed'

C4_DueTick ==
    spc = "loop" /\ due =>
        \/ spc' = "running" /\ mpc' = "init"
        \/ spc' = "stopped"

(***************************************************************************)
(* C4: a cycle that raised ends with the scheduler back in its loop, and   *)
(* from the loop a due job is always started next (unless the operator     *)
(* interrupts), also after a failed cycle.                                 *)
(***************************************************************************)
C4_LoopSurvivesFailure ==
    /\ [](last_failed => spc \in {"loop", "running", "stopped"})
    /\ [][C4_BackToIdle]_vars
    /\ [][C4_DueTick]_vars

\* a scheduled cycle failed, a later due tick started another one, which
\* failed as well
C4_Witness ==
    /\ spc = "running"
    /\ report = "success"
    /\ last_failed
    /\ mpc = "returned"
    /\ raised = "OSError"

(***************************************************************************)
(* C5 as claimed: a stop signal never cancels a running cycle; the         *)
(* scheduler ends only with no cycle in flight.                            *)
(***************************************************************************)
C5_NeverCancelled == spc \in {"stopped", "crashed"} => mpc = "idle"

C5_Terminal == spc \in {"stopped", "crashed"}

C5_InterruptStep ==
    /\ C5_Terminal => UNCHANGED vars
    /\ ~C5_Terminal /\ C5_Terminal' =>
          /\ spc' = (IF spc \in {"loop", "running"} THEN "stopped" ELSE "crashed")
          /\ mvars' = mvars
          /\ bpc' = "idle"

(***************************************************************************)
(* C5 as amended: main never absorbs the interrupt; a signal that arrives  *)
(* during a cycle ends the scheduler at once (Stopped for a scheduled      *)
(* cycle, an uncaught KeyboardInterrupt for the run-immediately cycle) and *)
(* the cancelled cycle makes no further step.                              *)
(***************************************************************************)
C5_InterruptCancels ==
    /\ [](raised # "KeyboardInterrupt")
    /\ [][C5_InterruptStep]_vars

\* a scheduled cycle interrupted after printing: nothing was saved or mailed
C5_Witness ==
    /\ spc = "stopped"
    /\ mpc = "save"
    /\ printed
    /\ email_enabled
    /\ ~saved
    /\ ~email_attempted

(***************************************************************************)
(* C6: with email enabled, a file-system error in save_brief_to_file does  *)
(* not stop send_email from being attempted for the same brief.            *)
(***************************************************************************)
C6_SinksIndependent ==
    mpc = "returned" /\ email_enabled /\ raised = "OSError" => email_attempted

(***************************************************************************)
(* C7: a failing fetch is not isolated to its topic: create_daily_brief    *)
(* raises, no brief is returned and no sink runs in that cycle, whatever   *)
(* was summarized before.                                                  *)
(***************************************************************************)
C7_FetchErrorAbortsCycle ==
    /\ fetch_error =>
          /\ bpc = "raised"
          /\ mpc \in {"build", "returned"}
          /\ ~printed /\ ~saved /\ ~email_attempted
          /\ mpc = "returned" => raised = "FetchError"
    /\ raised = "FetchError" /\ Alive => fetch_error

\* the second topic's fetch failed after the first topic was summarized
C7_Witness ==
    /\ mpc = "returned"
    /\ raised = "FetchError"
    /\ ti = 2
    /\ Len(brief) = 1
    /\ brief[1].summaries # <<>>

\* ---- C8
C8_Counts ==
    /\ spc \in {"loop", "running", "stopped"} =>
          ran_before_loop = (IF argv = <<"--run-now">> THEN 1 ELSE 0)
    /\ spc = "runnow" => argv = <<"--run-now">> /\ ran_before_loop = 0
    /\ spc = "loop" => mpc = "idle"

C8_CycleStart ==
    mpc = "idle" /\ mpc' # "idle" =>
        \/ spc = "start" /\ argv = <<"--run-now">> /\ spc' = "runnow"
        \/ spc = "loop" /\ due /\ spc' = "running"

(***************************************************************************)
(* C8: with --run-now exactly one cycle runs and completes before the      *)
(* loop is entered; without it none does and a cycle starts only from a    *)
(* due poll; the loop never polls while a cycle is in flight.              *)
(***************************************************************************)
C8_RunImmediately == [](C8_Counts) /\ [][C8_CycleStart]_vars

\* the immediate cycle failed, and the loop is polling with a job due
C8_Witness ==
    /\ spc = "loop"
    /\ ran_before_loop = 1
    /\ last_failed
    /\ due

(***************************************************************************)
(* C9 as claimed: iterating the returned brief yields the topics in        *)
(* processing order: a topic whose value was written later never appears   *)
(* before a topic whose value was written earlier.                         *)
(***************************************************************************)
C9_ProcessingOrder ==
    bpc = "returned" =>
        \A p, q \in 1..Len(brief) :
            p < q => LastWrite(brief[p].topic) < LastWrite(brief[q].topic)

C9_Keys ==
    /\ IsFirstOccurrenceList(Keys(brief), Processed)
    /\ TopicDone => DictGet(brief, LastTopic) = topic_summaries
    /\ bpc = "summarize" /\ ai = 1 => IsFirstOccurrenceList(unique_articles, articles)

C9_WriteStep ==
    brief' # brief /\ bpc' # "idle" =>
        \A k \in Range(Keys(brief)) \ {topics[ti]} :
            HasKey(brief', k) /\ DictGet(brief', k) = DictGet(brief, k)

(***************************************************************************)
(* C9 as amended: every occurrence is deduplicated against its own fetch   *)
(* only; the brief has one key per distinct processed topic, in order of   *)
(* first occurrence; the key holds the summaries of the topic's latest     *)
(* occurrence, and writing one topic leaves every other key's value as it  *)
(* was.                                                                    *)
(***************************************************************************)
C9_FirstOccurrenceOrder == [](C9_Keys) /\ [][C9_WriteStep]_vars

\* [t1, t2, t1]: t1 was written last, with a summary, and still comes first
C9_Witness ==
    /\ bpc = "returned"
    /\ topics = <<"t1", "t2", "t1">>
    /\ Keys(brief) = <<"t1", "t2">>
    /\ topic_summaries # <<>>
    /\ brief[1].summaries = topic_summaries
    /\ brief[2].summaries = <<>>

(***************************************************************************)
(* C10: no Exception leaves main, so run_news_summarizer never takes its   *)
(* error branch and reports success also for a cycle that raised.          *)
(***************************************************************************)
C10_MainCatchesAll ==
    /\ mpc # "escaped"
    /\ report # "error"
    /\ last_failed => report = "success"
    /\ raised # "none" /\ Alive => mpc = "returned"

\* the scheduled cycle produced no brief and was reported as a success
C10_Witness ==
    /\ spc = "loop"
    /\ argv = <<>>
    /\ last_failed
    /\ report = "success"

====
